---- MODULE Spec2Model ----
(***************************************************************************)
(* Model of the script-to-video pipeline of vid-opus-ai:                   *)
(*   - the VideoGenerator component (generateVideo, its catch/finally and  *)
(*     the realtime Job-update callback), src/src/components/              *)
(*     VideoGenerator.tsx;                                                 *)
(*   - the generate-scene-images edge function with its per-scene retry    *)
(*     loop, src/unnamed/part_000;                                         *)
(*   - the video_generation_jobs table, src/unnamed/part_001;              *)
(*   - the Index page's handleGenerate, src/unnamed/part_002, and the      *)
(*     generate-video-content function it invokes (index.ts:85-218).       *)
(* One action is one synchronous stretch of code between two awaits: the   *)
(* JavaScript event loop runs such a stretch without interleaving.  The    *)
(* edge function runs while the client is suspended in functions.invoke.   *)
(* An error message is modelled by the set of the substrings it contains   *)
(* among those the code tests with String.includes.                        *)
(***************************************************************************)
EXTENDS Integers, Sequences, FiniteSets, TLC

\* ---------------------------------------------------------------- bounds
MaxScenes == 2

MaxRuns == 2

MaxPending == 1

MaxDescLen == 62

MaxVisualLines == 2

MaxScriptLines == 3

\* ------------------------------------------------------ program constants
InitialRetries == 3

BackoffStepMs == 2000

SuccessDelayMs == 1000

EdgeProgressBand == 50

WriteBandStart == 65

WriteBandWidth == 15

maxLength == 60

MinDescriptionLength == 20

SceneDuration == 5

VARIABLES
  sceneCount,      \* scenes.length returned by parseScriptAndScenes (props are fixed per mount)
  isGenerating,    \* React state
  progressPercent, \* React state
  jobId,           \* React state (0 = null)
  closureJobId,    \* jobId as captured by the running generateVideo closure
  pc,              \* position of generateVideo ("idle" = no run in progress)
  job,             \* the local const job.id of the current/last run (0 = none)
  imageData,       \* imageData.images
  fallback,        \* the run took generatePlaceholderImages
  outcome,         \* "none" | "running" | "success" | "failed"
  wi,              \* loop variable i of the writeFile loop
  files,           \* ffmpeg virtual FS: file index k (image<k>.png) -> sceneIndex of its content
  execFiles,       \* number of image files present when exec was called, -1 = not called
  runs,            \* number of runs started
  seenError,       \* errorMessage of the acquisition step ({} = none seen) (history)
  failedAt,        \* position at which the run threw into the outer catch (history)
  ffmpeg,          \* const ffmpeg of the run: "none" before ffmpeg.load has returned,
                   \* then "loaded" (the code has no call that ends an instance)
  jobs,            \* table video_generation_jobs: id -> row, for the rows whose id the
                   \* component still holds (job of the run, jobId of the state or closure)
  rtQueue,         \* realtime UPDATE events not yet delivered
  dbFaults,        \* the database may refuse a write to video_generation_jobs
  epc,             \* position of the edge function ("off" = not invoked)
  index,           \* loop variable of the per-scene loop
  retries,         \* let retries
  imageUrl,        \* imageUrl is truthy
  images,          \* const images = []
  waitMs,          \* length of the setTimeout awaited in the last step of the function, or 0
  eresp,           \* the Response returned by the edge function
  reqs,            \* the requests made for the scene in work: its index, their number,
                   \* how many were answered 429, the kind of the last answer (history)
  phScenes,        \* generatePlaceholderImages: visualDescription of each scene of its argument
  phIndex,         \* generatePlaceholderImages: index of the next scenes.map callback
  phTexts,         \* generatePlaceholderImages: description passed to fillText, per scene
  script,          \* parseScriptAndScenes: the lines of the prop script
  visualScenes,    \* parseScriptAndScenes: the lines of the prop visualScenes
  ppc,             \* parseScriptAndScenes: position ("off" = not called)
  lineNo,          \* parseScriptAndScenes: number of lines the loop in progress has consumed
  cleanDescriptions, \* const cleanDescriptions
  currentTimestamp,  \* let currentTimestamp (a marker [00:0k] and the text '00:0k' are k)
  currentText,     \* let currentText
  sceneIndex,      \* let sceneIndex
  scenes,          \* const scenes
  lastIndex,       \* timestampRegex.lastIndex
  allScenes,       \* index.ts: sceneDescriptions.length
  allPc,           \* index.ts: position of the handler ("off" = not invoked)
  allInFlight,     \* index.ts: scene indexes whose fetch was issued and has not returned
  allBody,         \* index.ts: scene index -> response whose body is being read
  allSettled,      \* index.ts: scene index -> answer received, for the promises settled
  allResp,         \* index.ts: the Response returned
  hpc,             \* Index page: position of handleGenerate ("idle" = not running)
  indexGenerating, \* Index page: React state isGenerating
  generatedContent, \* Index page: React state generatedContent (NoContent = null)
  pageUser,        \* Index page: React state user is not null
  toast,           \* Index page: the toast handleGenerate has shown in its last run
  saveTimer,       \* Index page: the setTimeout(() => saveProject(...), 0) is pending
  hruns,           \* Index page: number of handleGenerate runs started
  cpc,             \* generate-video-content: position of the handler ("off" = not invoked)
  gateway,         \* generate-video-content: the gateway response whose body is being read
  cresp            \* generate-video-content: the Response returned

vars == <<sceneCount, isGenerating, progressPercent, jobId, closureJobId, pc, job,
          imageData, fallback, outcome, wi, files, execFiles, runs, seenError, failedAt,
          ffmpeg, jobs, rtQueue, dbFaults, epc, index, retries, imageUrl, images, waitMs, eresp,
          reqs, phScenes, phIndex, phTexts, script, visualScenes, ppc, lineNo, cleanDescriptions,
          currentTimestamp, currentText, sceneIndex, scenes, lastIndex, allScenes, allPc,
          allInFlight, allBody, allSettled, allResp, hpc, indexGenerating,
          generatedContent, pageUser, toast, saveTimer, hruns, cpc, gateway, cresp>>

\* the component and the edge function
pipelineVars == <<sceneCount, isGenerating, progressPercent, jobId, closureJobId, pc, job,
                  imageData, fallback, outcome, wi, files, execFiles, runs, seenError,
                  failedAt, ffmpeg, jobs, rtQueue, dbFaults, epc, index, retries, imageUrl, images,
                  waitMs, eresp, reqs>>

\* the pure functions of the component, applied to inputs of their own
placeholderVars == <<phScenes, phIndex, phTexts>>

parseVars == <<script, visualScenes, ppc, lineNo, cleanDescriptions, currentTimestamp,
               currentText, sceneIndex, scenes, lastIndex>>

\* the Promise.all variant of the image function (index.ts)
allVars == <<allScenes, allPc, allInFlight, allBody, allSettled, allResp>>

\* the Index page and the generate-video-content function
contentVars == <<hpc, indexGenerating, generatedContent, pageUser, toast, saveTimer, hruns,
                 cpc, gateway, cresp>>

pureVars == <<placeholderVars, parseVars, allVars, contentVars>>

clientVars == <<isGenerating, progressPercent, jobId, closureJobId, pc, job,
                imageData, fallback, outcome, wi, files, execFiles, runs, seenError, failedAt,
                ffmpeg>>

edgeVars == <<epc, index, retries, imageUrl, images, waitMs, eresp, reqs>>

\* ------------------------------------------------------------- messages
NoTokens == {}

\* "Rate limit exceeded. Please try again in a few moments or upgrade ..."
RateLimitExceededMsg == {"Rate limit exceeded"}

\* "No image generated - check if prompt is valid"
NoImageMsg == {"No image generated"}

\* "LOVABLE_API_KEY is not configured"
NoKeyMsg == {"not configured"}

\* `AI gateway error: ${errorText}`
GatewayErrorMsg(text) == {"AI gateway error"} \cup text

\* "Payment required. Not enough AI credits in your workspace."
PaymentClientMsg == {"Payment required", "credits"}

\* "Rate limit exceeded. Please wait a bit and try again."
RateClientMsg == {"Rate limit exceeded"}

\* "Edge Function returned a non-2xx status code" (transport error of the client library)
TransportMsg == {"non-2xx"}

\* gateway responses: status, whether image data is present, substrings of the error body
Responses ==
  { [status |-> 200, image |-> TRUE,  text |-> {}],
    [status |-> 200, image |-> FALSE, text |-> {}],
    [status |-> 429, image |-> FALSE, text |-> {}],
    [status |-> 402, image |-> FALSE, text |-> {"payment_required"}],
    [status |-> 402, image |-> FALSE, text |-> {"credits"}],
    [status |-> 402, image |-> FALSE, text |-> {}],
    [status |-> 500, image |-> FALSE, text |-> {"rate_limited"}] }

\* ------------------------------------------------------------- helpers
\* Math.round(a / b) for a >= 0, b > 0
Round(a, b) == (2 * a + b) \div (2 * b)

\* the row inserted by generateVideo; columns as in the migration (part_001)
NewJob == [status |-> "pending", progress |-> 0, completed_scenes |-> 0, error |-> FALSE]

Patch(row, patch) ==
  [k \in DOMAIN row |-> IF k \in DOMAIN patch THEN patch[k] ELSE row[k]]

\* .update(patch).eq('id', j), awaited; its result is not inspected.  The write is
\* published as a realtime UPDATE event carrying the new row.
DbUpdate(j, patch) ==
  IF j \in DOMAIN jobs
  THEN /\ jobs' = [jobs EXCEPT ![j] = Patch(jobs[j], patch)]
       /\ rtQueue' = IF Len(rtQueue) < MaxPending
                     THEN Append(rtQueue, [job |-> j,
                                           progress |-> Patch(jobs[j], patch).progress,
                                           status |-> Patch(jobs[j], patch).status])
                     ELSE rtQueue
  ELSE UNCHANGED <<jobs, rtQueue>>

\* whether a write is applied: always, unless the database may refuse writes
WriteOutcomes == IF dbFaults THEN BOOLEAN ELSE {TRUE}

\* await supabase.from('video_generation_jobs').update(patch).eq('id', j)
DbWrite(applied, j, patch) ==
  IF applied THEN DbUpdate(j, patch) ELSE UNCHANGED <<jobs, rtQueue>>

\* mutant: the promise of an update rejects when the write fails (throwOnError)
RejectsWhenRefused(applied) == ~applied

\* the promise of an update resolves to { data, error } whether or not the write was
\* applied, and no caller reads the result: the await never throws
Rejects(applied) == FALSE

\* the text of the error an await of a refused write would throw
WriteRefusedMsg == {"fetch failed"}

\* ------------------------------------------------- edge function (part_000)
Kind(r) == IF r.status = 200 THEN (IF r.image THEN "ok" ELSE "noimg")
           ELSE IF r.status = 429 THEN "429"
           ELSE IF r.status = 402 THEN "402" ELSE "500"

\* mutant: the outer catch does not look for the payment keywords
EdgeStatusNoPayment(message) ==
  IF "rate_limited" \in message \/ "429" \in message THEN 429
  ELSE 500

\* outer catch: status of the error response
EdgeStatus(message) ==
  IF "payment_required" \in message \/ "Payment required" \in message THEN 402
  ELSE IF "rate_limited" \in message \/ "429" \in message THEN 429
  ELSE 500

\* outer catch: clientMessage
EdgeClientMessage(message) ==
  IF EdgeStatus(message) = 402 THEN PaymentClientMsg
  ELSE IF EdgeStatus(message) = 429 THEN RateClientMsg
  ELSE message

ErrorResponse(message) ==
  [ok |-> FALSE, status |-> EdgeStatus(message),
   error |-> EdgeClientMessage(message), images |-> <<>>]

SuccessResponse(imgs) ==
  [ok |-> TRUE, status |-> 200, error |-> NoTokens, images |-> imgs]

NoResponse == [ok |-> FALSE, status |-> 0, error |-> NoTokens, images |-> <<>>]

\* mutant: the scenes still to do are counted instead of the scenes done
SceneProgressRemaining(idx, n) == Round((n - idx) * EdgeProgressBand, n)

\* Math.round(((index + 1) / sceneDescriptions.length) * 50)
SceneProgress(idx, n) == Round((idx + 1) * EdgeProgressBand, n)

\* progress written by the last update of the function
FinalEdgeProgress == 50

\* (4 - retries) * 2000
waitTime(r) == (4 - r) * BackoffStepMs

\* mutant: the loop does not stop once an image was obtained
WhileCondRetriesOnly(r, url) == r > 0

\* while (retries > 0 && !imageUrl)
WhileCond(r, url) == r > 0 /\ ~url

\* mutant: the catch of the retry loop rethrows only once the budget is at zero
CatchRethrowsAtZero(r) == r = 0

\* catch (error) { if (retries === 1) throw error; ...
CatchRethrows(r) == r = 1

\* the 429 branch after retries--: retry (continue) or throw
RateLimitRetries(r) == r > 0

\* end of the function body / outer catch: the function returns
EdgeThrow(message) ==
  /\ epc' = "returned"
  /\ eresp' = ErrorResponse(message)
  /\ waitMs' = 0

\* the per-scene loop is left for scene index + 1 or for the end of the function
NextScene ==
  IF index + 1 < sceneCount
  THEN /\ index' = index + 1
       /\ epc' = "sceneUpd"
  ELSE /\ index' = index + 1
       /\ epc' = "finalUpd"

\* a setTimeout of ms milliseconds is awaited, then the while condition is evaluated with
\* `retries` = r and `imageUrl` = url (lines 70, 100, 128, 138).  The wait changes nothing
\* but the time, so it belongs to the step that starts it; waitMs keeps its length.
WaitThenLoop(ms, r, url) ==
  /\ waitMs' = ms
  /\ IF WhileCond(r, url)
     THEN /\ epc' = "fetch"
          /\ index' = index
     ELSE NextScene

\* an error thrown inside the try block of the retry loop, with `retries` = r
Caught(r, message) ==
  IF CatchRethrows(r)
  THEN /\ EdgeThrow(message)
       /\ retries' = r
       /\ index' = index
  ELSE /\ retries' = r - 1
       /\ WaitThenLoop(waitTime(r - 1), r - 1, FALSE)
       /\ eresp' = eresp

\* no request was made yet for the scene in work
NoRequests == [scene |-> 0, attempts |-> 0, n429 |-> 0, last |-> "none"]

\* the fetch of line 72 for scene `index` was answered by r
Request(r) ==
  [scene |-> index, attempts |-> reqs.attempts + 1,
   n429 |-> reqs.n429 + (IF r.status = 429 THEN 1 ELSE 0), last |-> Kind(r)]

\* serve handler up to the first await of an update (lines 13-44)
EdgeStart ==
  /\ epc = "start"
  /\ \E keyOk \in BOOLEAN :
       IF sceneCount = 0
       THEN EdgeThrow({"non-empty array"})
       ELSE IF ~keyOk
       THEN EdgeThrow(NoKeyMsg)
       ELSE /\ epc' = "initUpd"
            /\ UNCHANGED <<eresp, waitMs>>
  /\ UNCHANGED <<sceneCount, dbFaults, clientVars, jobs, rtQueue, index, retries, imageUrl, images, reqs>>
  /\ UNCHANGED pureVars

\* update { status: 'processing', total_scenes, progress: 0 } returns (lines 34-49)
EdgeInitUpdate ==
  /\ epc = "initUpd"
  /\ \E applied \in WriteOutcomes :
       /\ DbWrite(applied, job, [status |-> "processing", progress |-> 0])
       /\ IF Rejects(applied)
          THEN /\ EdgeThrow(WriteRefusedMsg)
               /\ index' = index
          ELSE /\ index' = 0
               /\ epc' = "sceneUpd"
               /\ UNCHANGED <<waitMs, eresp>>
  /\ UNCHANGED <<sceneCount, dbFaults, clientVars, retries, imageUrl, images, reqs>>
  /\ UNCHANGED pureVars
\* update { completed_scenes, progress } returns; the retry loop starts (lines 54-70)
EdgeSceneUpdate ==
  /\ epc = "sceneUpd"
  /\ \E applied \in WriteOutcomes :
       /\ DbWrite(applied, job, [completed_scenes |-> index + 1,
                                 progress |-> SceneProgress(index, sceneCount)])
       /\ IF Rejects(applied)
          THEN /\ EdgeThrow(WriteRefusedMsg)
               /\ UNCHANGED <<retries, imageUrl, reqs>>
          ELSE /\ retries' = InitialRetries
               /\ imageUrl' = FALSE
               /\ reqs' = NoRequests
               /\ waitMs' = 0
               /\ epc' = "fetch"
               /\ eresp' = eresp
  /\ UNCHANGED <<sceneCount, dbFaults, clientVars, index, images>>
  /\ UNCHANGED pureVars
\* fetch returns with response r, up to the next fetch or update (lines 72-139)
EdgeFetch ==
  /\ epc = "fetch"
  /\ \E r \in Responses :
       /\ reqs' = Request(r)
       /\ IF r.status # 200
          THEN /\ UNCHANGED <<images, imageUrl>>
               /\ IF r.status = 429
                  THEN IF RateLimitRetries(retries - 1)
                       THEN /\ retries' = retries - 1
                            /\ WaitThenLoop(waitTime(retries - 1), retries - 1, imageUrl)
                            /\ eresp' = eresp
                       ELSE Caught(retries - 1, RateLimitExceededMsg)
                  ELSE Caught(retries, GatewayErrorMsg(r.text))
          ELSE IF ~r.image
          THEN /\ UNCHANGED <<images, imageUrl>>
               /\ Caught(retries, NoImageMsg)
          ELSE /\ images' = Append(images, [sceneIndex |-> index, kind |-> "ai"])
               /\ imageUrl' = TRUE
               /\ UNCHANGED <<retries, eresp>>
               /\ WaitThenLoop(IF index < sceneCount - 1 THEN SuccessDelayMs ELSE 0,
                               retries, TRUE)
  /\ UNCHANGED <<sceneCount, dbFaults, clientVars, jobs, rtQueue>>
  /\ UNCHANGED pureVars

\* update { progress: 50 } returns and the function returns { images } (lines 145-159)
EdgeFinalUpdate ==
  /\ epc = "finalUpd"
  /\ \E applied \in WriteOutcomes :
       /\ DbWrite(applied, job, [progress |-> FinalEdgeProgress])
       /\ IF Rejects(applied)
          THEN EdgeThrow(WriteRefusedMsg)
          ELSE /\ epc' = "returned"
               /\ eresp' = SuccessResponse(images)
               /\ waitMs' = 0
  /\ UNCHANGED <<sceneCount, dbFaults, clientVars, index, retries, imageUrl, images, reqs>>
  /\ UNCHANGED pureVars

\* ------------------------------------- VideoGenerator.tsx: generateVideo
\* mutant: a rate-limit message is taken for a payment/quota message too
paymentOrRateErrorAlsoRate(message) ==
  \/ "Payment required" \in message
  \/ "payment_required" \in message
  \/ "credits" \in message
  \/ "402" \in message
  \/ "Rate limit exceeded" \in message
  \/ "429" \in message

\* message.includes('Payment required') || ... (lines 249-253)
paymentOrRateError(message) ==
  \/ "Payment required" \in message
  \/ "payment_required" \in message
  \/ "credits" \in message
  \/ "402" \in message

\* mutant: the '402' substring is not tested
CatchPaymentErrorNo402(message) ==
  \/ "Payment required" \in message
  \/ "payment_required" \in message
  \/ "credits" \in message

\* the same test in the catch of the acquisition try (lines 275-276)
CatchPaymentError(message) ==
  \/ "Payment required" \in message
  \/ "payment_required" \in message
  \/ "credits" \in message
  \/ "402" \in message

\* scenes.map((scene, index) => ({ sceneIndex: index, imageUrl: canvas.toDataURL() }))
generatePlaceholderImages(n) ==
  [k \in 1..n |-> [sceneIndex |-> k - 1, kind |-> "placeholder"]]

\* 65 + Math.round((i / imageData.images.length) * 15)
imgProgress(k, len) == WriteBandStart + Round(k * WriteBandWidth, len)

\* what functions.invoke hands to the caller for a non-2xx response: the body's
\* error text or the client library's own transport message
ClientMessages(resp) == {resp.error, TransportMsg}

\* an exception text that names the payment status and the rate-limit status
QuotaAndRateMsg == {"402", "429"}

\* the messages of an exception thrown by functions.invoke itself
ExceptionMessages == {TransportMsg, QuotaAndRateMsg}

\* catch (error) { ... if (jobId) await update({ status: 'failed' }) ... } and finally
\* (lines 364-396); p is progressPercent when the error is thrown.  jobId is the value
\* the closure captured when the run started.
Fail(p) ==
  /\ outcome' = "failed"
  /\ failedAt' = pc
  /\ IF closureJobId # 0
     THEN /\ pc' = "failUpd"
          /\ progressPercent' = p
          /\ isGenerating' = isGenerating
     ELSE /\ pc' = "idle"
          /\ progressPercent' = 0
          /\ isGenerating' = FALSE

\* mutant: an empty scene list is not detected
NoScenesNever(n) == n < 0

\* scenes.length === 0 (line 228)
NoScenes(n) == n = 0

\* onClick={generateVideo} disabled={isGenerating}; lines 197-204
Start ==
  /\ pc = "idle"
  /\ ~isGenerating
  /\ runs < MaxRuns
  /\ runs' = runs + 1
  /\ isGenerating' = TRUE
  /\ progressPercent' = 0
  /\ closureJobId' = jobId
  /\ outcome' = "running"
  /\ job' = 0
  /\ fallback' = FALSE
  /\ imageData' = <<>>
  /\ files' = <<>>
  /\ execFiles' = -1
  /\ wi' = 0
  /\ seenError' = {}
  /\ failedAt' = "none"
  /\ ffmpeg' = "none"
  /\ pc' = "getUser"
  /\ jobs' = [j \in DOMAIN jobs \cap {jobId} |-> jobs[j]]
  /\ UNCHANGED <<sceneCount, dbFaults, jobId, rtQueue, edgeVars>>
  /\ UNCHANGED pureVars

\* auth.getUser() returns (lines 204-219)
GetUser ==
  /\ pc = "getUser"
  /\ \E user \in BOOLEAN :
       IF user
       THEN /\ pc' = "insert"
            /\ UNCHANGED <<outcome, failedAt, progressPercent, isGenerating>>
       ELSE Fail(progressPercent)
  /\ UNCHANGED <<sceneCount, dbFaults, ffmpeg, jobId, closureJobId, job, imageData, fallback, wi, files,
                 execFiles, runs, seenError, jobs, rtQueue, edgeVars>>
  /\ UNCHANGED pureVars

\* the insert returns; parse; invoke generate-scene-images (lines 219-247)
InsertReturn ==
  /\ pc = "insert"
  /\ \E jobError \in BOOLEAN :
       IF jobError
       THEN /\ Fail(progressPercent)
            /\ UNCHANGED <<jobs, job, jobId, edgeVars>>
       ELSE /\ jobs' = [j \in DOMAIN jobs \cup {runs} |-> IF j = runs THEN NewJob ELSE jobs[j]]
            /\ job' = runs
            /\ jobId' = runs
            /\ IF NoScenes(sceneCount)
               THEN /\ Fail(5)
                    /\ UNCHANGED edgeVars
               ELSE /\ progressPercent' = 10
                    /\ pc' = "invoke"
                    /\ UNCHANGED <<outcome, failedAt, isGenerating>>
                    /\ epc' = "start"
                    /\ index' = 0
                    /\ retries' = 0
                    /\ imageUrl' = FALSE
                    /\ images' = <<>>
                    /\ waitMs' = 0
                    /\ eresp' = NoResponse
                    /\ reqs' = NoRequests
  /\ UNCHANGED <<sceneCount, dbFaults, ffmpeg, closureJobId, imageData, fallback, wi, files, execFiles,
                 runs, seenError, rtQueue>>
  /\ UNCHANGED pureVars

\* the acquisition step ends with a usable image list: lines 287-292
Acquired(imgs, viaFallback) ==
  /\ imageData' = imgs
  /\ fallback' = viaFallback
  /\ progressPercent' = 55
  /\ pc' = "upd55"
  /\ UNCHANGED <<outcome, failedAt, isGenerating>>

\* functions.invoke returns or throws (lines 239-292)
InvokeReturn ==
  /\ pc = "invoke"
  /\ epc = "returned"
  /\ epc' = "off"
  /\ index' = 0
  /\ retries' = 0
  /\ imageUrl' = FALSE
  /\ images' = <<>>
  /\ eresp' = NoResponse
  /\ reqs' = NoRequests
  /\ \E transportOk \in BOOLEAN, thrown \in BOOLEAN :
       IF eresp.ok /\ transportOk
       THEN /\ Acquired(eresp.images, FALSE)
            /\ seenError' = {}
       ELSE \E message \in (IF thrown THEN ExceptionMessages
                            ELSE IF eresp.ok THEN {TransportMsg} ELSE ClientMessages(eresp)) :
            /\ seenError' = message
            /\ IF (~thrown /\ paymentOrRateError(message)) \/ CatchPaymentError(message)
               THEN Acquired(generatePlaceholderImages(sceneCount), TRUE)
               ELSE /\ Fail(10)
                    /\ UNCHANGED <<imageData, fallback>>
  /\ waitMs' = 0
  /\ UNCHANGED <<sceneCount, dbFaults, ffmpeg, jobId, closureJobId, job, wi, files, execFiles, runs, jobs,
                 rtQueue>>
  /\ UNCHANGED pureVars

\* update { progress: 55 } returns; new FFmpeg(); ffmpeg.load is awaited (lines 289-305)
Update55 ==
  /\ pc = "upd55"
  /\ \E applied \in WriteOutcomes :
       /\ DbWrite(applied, job, [progress |-> 55])
       /\ IF Rejects(applied)
          THEN /\ Fail(progressPercent)
               /\ UNCHANGED files
          ELSE /\ files' = <<>>
               /\ pc' = "load"
               /\ UNCHANGED <<isGenerating, progressPercent, outcome, failedAt>>
  /\ UNCHANGED <<sceneCount, dbFaults, ffmpeg, jobId, closureJobId, job, imageData, fallback, wi,
                 execFiles, runs, seenError, edgeVars>>
  /\ UNCHANGED pureVars
\* ffmpeg.load returns or throws (lines 296-312)
Load ==
  /\ pc = "load"
  /\ \E loaded \in BOOLEAN :
       IF loaded
       THEN /\ ffmpeg' = "loaded"
            /\ progressPercent' = 65
            /\ pc' = "upd65"
            /\ UNCHANGED <<outcome, failedAt, isGenerating>>
       ELSE /\ Fail(progressPercent)
            /\ UNCHANGED ffmpeg
  /\ UNCHANGED <<sceneCount, dbFaults, jobId, closureJobId, job, imageData, fallback, wi, files,
                 execFiles, runs, seenError, jobs, rtQueue, edgeVars>>
  /\ UNCHANGED pureVars

\* the writeFile loop is left: lines 326-331
IssueUpdate80 ==
  /\ progressPercent' = 80
  /\ pc' = "upd80"

\* update { progress: 65 } returns; the writeFile loop starts (lines 309-319)
Update65 ==
  /\ pc = "upd65"
  /\ \E applied \in WriteOutcomes :
       /\ DbWrite(applied, job, [progress |-> 65])
       /\ IF Rejects(applied)
          THEN /\ Fail(progressPercent)
               /\ UNCHANGED wi
          ELSE /\ wi' = 0
               /\ UNCHANGED <<isGenerating, outcome, failedAt>>
               /\ IF 0 < Len(imageData)
                  THEN /\ pc' = "write"
                       /\ UNCHANGED progressPercent
                  ELSE IssueUpdate80
  /\ UNCHANGED <<sceneCount, dbFaults, ffmpeg, jobId, closureJobId, job, imageData, fallback,
                 files, execFiles, runs, seenError, edgeVars>>
  /\ UNCHANGED pureVars
\* ffmpeg.writeFile(`image${i}.png`, ...) returns or throws (lines 315-331)
WriteFile ==
  /\ pc = "write"
  /\ \E written \in BOOLEAN :
       IF written
       THEN /\ files' = Append(files, imageData[wi + 1].sceneIndex)
            /\ wi' = wi + 1
            /\ UNCHANGED <<outcome, failedAt, isGenerating>>
            /\ IF wi + 1 < Len(imageData)
               THEN /\ progressPercent' = imgProgress(wi, Len(imageData))
                    /\ pc' = "write"
               ELSE IssueUpdate80
       ELSE /\ Fail(progressPercent)
            /\ UNCHANGED <<files, wi>>
  /\ UNCHANGED <<sceneCount, dbFaults, ffmpeg, jobId, closureJobId, job, imageData, fallback, execFiles,
                 runs, seenError, jobs, rtQueue, edgeVars>>
  /\ UNCHANGED pureVars

\* update { progress: 80 } returns; ffmpeg.exec is called (lines 328-340)
Update80 ==
  /\ pc = "upd80"
  /\ \E applied \in WriteOutcomes :
       /\ DbWrite(applied, job, [progress |-> 80])
       /\ IF Rejects(applied)
          THEN /\ Fail(progressPercent)
               /\ UNCHANGED execFiles
          ELSE /\ execFiles' = Len(files)
               /\ pc' = "exec"
               /\ UNCHANGED <<isGenerating, progressPercent, outcome, failedAt>>
  /\ UNCHANGED <<sceneCount, dbFaults, ffmpeg, jobId, closureJobId, job, imageData, fallback, wi,
                 files, runs, seenError, edgeVars>>
  /\ UNCHANGED pureVars
\* ffmpeg.exec returns or throws (lines 333-343)
Exec ==
  /\ pc = "exec"
  /\ \E encoded \in BOOLEAN :
       IF encoded
       THEN /\ pc' = "read"
            /\ UNCHANGED <<outcome, failedAt, progressPercent, isGenerating>>
       ELSE Fail(progressPercent)
  /\ UNCHANGED <<sceneCount, dbFaults, ffmpeg, jobId, closureJobId, job, imageData, fallback, wi, files,
                 execFiles, runs, seenError, jobs, rtQueue, edgeVars>>
  /\ UNCHANGED pureVars

\* ffmpeg.readFile returns or throws (lines 343-360)
ReadFile ==
  /\ pc = "read"
  /\ \E read \in BOOLEAN :
       IF read
       THEN /\ progressPercent' = 100
            /\ pc' = "updDone"
            /\ UNCHANGED <<outcome, failedAt, isGenerating>>
       ELSE Fail(progressPercent)
  /\ UNCHANGED <<sceneCount, dbFaults, ffmpeg, jobId, closureJobId, job, imageData, fallback, wi, files,
                 execFiles, runs, seenError, jobs, rtQueue, edgeVars>>
  /\ UNCHANGED pureVars

\* update { status: 'completed', progress: 100 } returns; finally (lines 353-362, 394-396)
UpdateCompleted ==
  /\ pc = "updDone"
  /\ \E applied \in WriteOutcomes :
       /\ DbWrite(applied, job, [status |-> "completed", progress |-> 100])
       /\ IF Rejects(applied)
          THEN Fail(progressPercent)
          ELSE /\ outcome' = "success"
               /\ isGenerating' = FALSE
               /\ pc' = "idle"
               /\ UNCHANGED <<progressPercent, failedAt>>
  /\ UNCHANGED <<sceneCount, dbFaults, ffmpeg, jobId, closureJobId, job, imageData, fallback, wi,
                 files, execFiles, runs, seenError, edgeVars>>
  /\ UNCHANGED pureVars
\* update { status: 'failed', error_message } .eq('id', jobId) returns (lines 382-396)
UpdateFailed ==
  /\ pc = "failUpd"
  /\ \E applied \in WriteOutcomes :
       /\ DbWrite(applied, closureJobId, [status |-> "failed", error |-> TRUE])
       /\ progressPercent' = IF Rejects(applied) THEN progressPercent ELSE 0
  /\ isGenerating' = FALSE
  /\ pc' = "idle"
  /\ UNCHANGED <<sceneCount, dbFaults, ffmpeg, jobId, closureJobId, job, imageData, fallback,
                 outcome, wi, files, execFiles, runs, seenError, failedAt, edgeVars>>
  /\ UNCHANGED pureVars
\* the postgres_changes callback of the channel of jobId runs (lines 44-54)
RealtimeCallback ==
  /\ rtQueue # <<>>
  /\ rtQueue' = Tail(rtQueue)
  /\ IF Head(rtQueue).job = jobId
     THEN /\ progressPercent' = Head(rtQueue).progress
          /\ isGenerating' = IF Head(rtQueue).status = "failed" THEN FALSE ELSE isGenerating
     ELSE UNCHANGED <<progressPercent, isGenerating>>
  /\ UNCHANGED <<sceneCount, dbFaults, ffmpeg, jobId, closureJobId, pc, job, imageData, fallback, outcome,
                 wi, files, execFiles, runs, seenError, failedAt, jobs, edgeVars>>
  /\ UNCHANGED pureVars

\* ------------- supabase/functions/generate-scene-images/index.ts (Promise.all)
\* the handler is not running
AllIdle ==
  /\ allScenes = 0
  /\ allPc = "off"
  /\ allInFlight = {}
  /\ allBody = [i \in {} |-> NoResponse]
  /\ allSettled = [i \in {} |-> "none"]
  /\ allResp = NoResponse

\* the response of the catch (lines 76-81): always status 500 with error.message
AllErrorResponse(message) ==
  [ok |-> FALSE, status |-> 500, error |-> message, images |-> <<>>]

\* the value Promise.all resolves to: one entry per scene, in scene order (lines 30-68)
AllImages(n) == [k \in 1..n |-> [sceneIndex |-> k - 1, kind |-> "ai"]]

\* the handler up to await Promise.all (lines 13-68): every callback of
\* sceneDescriptions.map runs to its fetch, so all requests are issued in this step
AllStart ==
  /\ allPc = "start"
  /\ \E keyOk \in BOOLEAN :
       IF allScenes = 0
       THEN /\ allPc' = "returned"
            /\ allResp' = AllErrorResponse({"non-empty array"})
            /\ UNCHANGED allInFlight
       ELSE IF ~keyOk
       THEN /\ allPc' = "returned"
            /\ allResp' = AllErrorResponse(NoKeyMsg)
            /\ UNCHANGED allInFlight
       ELSE /\ allPc' = "all"
            /\ allInFlight' = 0..(allScenes - 1)
            /\ UNCHANGED allResp
  /\ UNCHANGED <<allScenes, allBody, allSettled, pipelineVars, placeholderVars, parseVars,
                 contentVars>>

\* the fetch of scene i returns with response r; its body is read next (lines 32-55)
AllFetch ==
  /\ \E i \in allInFlight, r \in Responses :
       /\ allInFlight' = allInFlight \ {i}
       /\ allBody' = [j \in DOMAIN allBody \cup {i} |-> IF j = i THEN r ELSE allBody[j]]
  /\ UNCHANGED <<allScenes, allPc, allSettled, allResp, pipelineVars, placeholderVars,
                 parseVars, contentVars>>

\* response.text() or response.json() of scene i returns and the promise of the scene
\* settles (lines 49-65); Promise.all rejects with the first rejection and resolves when
\* every promise has resolved (lines 68-81)
AllBody ==
  /\ \E i \in DOMAIN allBody :
       LET r == allBody[i]
       IN /\ allBody' = [j \in DOMAIN allBody \ {i} |-> allBody[j]]
          /\ allSettled' = [j \in DOMAIN allSettled \cup {i} |->
                              IF j = i THEN Kind(r) ELSE allSettled[j]]
          /\ IF allPc # "all"
             THEN UNCHANGED <<allPc, allResp>>
             ELSE IF r.status # 200
             THEN /\ allPc' = "returned"
                  /\ allResp' = AllErrorResponse(GatewayErrorMsg(r.text))
             ELSE IF ~r.image
             THEN /\ allPc' = "returned"
                  /\ allResp' = AllErrorResponse({"No image generated"})
             ELSE IF allInFlight = {} /\ DOMAIN allBody = {i}
             THEN /\ allPc' = "returned"
                  /\ allResp' = SuccessResponse(AllImages(allScenes))
             ELSE UNCHANGED <<allPc, allResp>>
  /\ UNCHANGED <<allScenes, allInFlight, pipelineVars, placeholderVars, parseVars, contentVars>>

\* ------------------------------- VideoGenerator.tsx: parseScriptAndScenes
\* A line is a sequence of tokens.  A token is a piece of text s of n characters; a
\* script marker [00:0k] carries k.
Tok(s, n) == [s |-> s, n |-> n, k |-> 0]

Marker(k) == [s |-> "[mm:ss]", n |-> 7, k |-> k]

Space == Tok(" ", 1)

Star == Tok("*", 1)

Gap == Tok("   ", 3)

Stars == Tok("**", 2)

VisualsLabel == Tok("Visuals:", 8)

BrollLabel == Tok("B-roll:", 7)

\* upper-case letters
Upper == Tok("SCENE", 5)

\* a time range such as [00:00 - 00:05]
Range == Tok("[mm:ss - mm:ss]", 15)

\* n characters of ordinary text without a space
Word(n) == Tok("word", n)

IsSpace(t) == t.s \in {" ", "   "}

IsMarker(t) == t.s = "[mm:ss]"

\* String.length
RECURSIVE Length(_)
Length(text) == IF text = <<>> THEN 0 ELSE Head(text).n + Length(Tail(text))

RECURSIVE trimStart(_)
trimStart(text) ==
  IF text # <<>> /\ IsSpace(Head(text)) THEN trimStart(Tail(text)) ELSE text

RECURSIVE trimEnd(_)
trimEnd(text) ==
  IF text # <<>> /\ IsSpace(text[Len(text)])
  THEN trimEnd(SubSeq(text, 1, Len(text) - 1))
  ELSE text

\* String.trim
trim(text) == trimEnd(trimStart(text))

\* String.startsWith
startsWith(line, prefix) ==
  Len(line) >= Len(prefix) /\ SubSeq(line, 1, Len(prefix)) = prefix

\* '*   **'
BulletPrefix == <<Star, Gap, Stars>>

\* '*   **Visuals:**'
VisualsPrefix == <<Star, Gap, Stars, VisualsLabel, Stars>>

\* '*   **B-roll:**'
BrollPrefix == <<Star, Gap, Stars, BrollLabel, Stars>>

\* text.split('\n').filter(line => line.trim())
NonBlank(lines) == SelectSeq(lines, LAMBDA line : Length(trim(line)) > 0)

\* line.match(/^\[[\d:]+\s*-\s*[\d:]+\]/)
MatchesRange(line) == line # <<>> /\ Head(line) = Range

\* line.match(/^\*\*[A-Z\s]+\*\*$/)
MatchesHeader(line) ==
  /\ Len(line) >= 3
  /\ Head(line) = Stars
  /\ line[Len(line)] = Stars
  /\ \A i \in 2..(Len(line) - 1) : line[i] = Upper \/ IsSpace(line[i])

\* the test of lines 72-74: the line is skipped
Skipped(line) ==
  \/ MatchesRange(line)
  \/ MatchesHeader(line)
  \/ startsWith(line, BulletPrefix)

\* the test of line 78
Labelled(line) == startsWith(line, VisualsPrefix) \/ startsWith(line, BrollPrefix)

\* line.replace(/^\*\s+\*\*(?:Visuals|B-roll):\*\*\s*/, '')
StripLabel(line) ==
  IF Labelled(line) THEN trimStart(SubSeq(line, 6, Len(line))) ELSE line

\* one iteration of the loop over visualLines (lines 70-84): the new cleanDescriptions
Extract(cd, line) ==
  IF Skipped(line) THEN cd
  ELSE IF Labelled(line)
  THEN LET description == trim(StripLabel(line))
       IN IF Length(description) > MinDescriptionLength THEN Append(cd, description) ELSE cd
  ELSE cd

\* 'A professional video scene'
GenericDescription == <<Word(1), Space, Word(12), Space, Word(5), Space, Word(5)>>

\* mutant: no default for a scene without a candidate
DescriptionForNoDefault(cd, i) ==
  IF i < Len(cd) /\ Length(cd[i + 1]) > 0 THEN cd[i + 1] ELSE <<>>

\* cleanDescriptions[sceneIndex] || 'A professional video scene'
DescriptionFor(cd, i) ==
  IF i < Len(cd) /\ Length(cd[i + 1]) > 0 THEN cd[i + 1] ELSE GenericDescription

\* the object pushed at lines 97-102 and 114-119
Scene(timestamp, text, cd, i) ==
  [timestamp |-> timestamp, text |-> trim(text),
   visualDescription |-> DescriptionFor(cd, i), duration |-> SceneDuration]

\* index of the first character of token i
Offset(line, i) == Length(SubSeq(line, 1, i - 1))

\* timestampRegex.exec(line) with the /g flag: the first marker that starts at or after
\* lastIndex (0 = no match)
exec(line, li) ==
  LET found == {i \in DOMAIN line : IsMarker(line[i]) /\ Offset(line, i) >= li}
  IN IF found = {} THEN 0 ELSE CHOOSE i \in found : \A j \in found : i <= j

\* mutant: the markers stay in the narration
RemoveMarkersNone(line) == line

\* line.replace(timestampRegex, '')
RemoveMarkers(line) == SelectSeq(line, LAMBDA t : ~IsMarker(t))

\* mutant: String.replace leaves lastIndex where exec has put it
LastIndexKept(li) == li

\* String.replace with a global regex ends with lastIndex 0 (line 106)
LastIndexAfterReplace(li) == 0

\* mutant: the last scene is also pushed when it is one past the candidates
LastSceneAllowedOnePast(i, cd) == i <= Len(cd)

\* sceneIndex < cleanDescriptions.length (line 113)
LastSceneAllowed(i, cd) == i < Len(cd)

\* the sequences of at most n elements of S
SeqsUpTo(S, n) == UNION { [1..m -> S] : m \in 0..n }

\* markers [00:00], [00:01], ...
Markers == 0..(MaxScriptLines - 1)

\* lines of the prop visualScenes: a time range, a header, labelled bullets with a
\* description of 21, 20 and 23 characters, another bullet, plain text
VisualLineSet ==
  { <<Range>>,
    <<Stars, Upper, Stars>>,
    VisualsPrefix \o <<Space, Word(21)>>,
    VisualsPrefix \o <<Space, Word(20)>>,
    BrollPrefix \o <<Space, Word(10), Space, Word(12)>>,
    <<Word(30)>> }

\* lines of the prop script: a marker followed by narration, a marker alone, narration
ScriptLineSet ==
  { <<Marker(k), Space, Word(9)>> : k \in Markers } \cup { <<Marker(0)>>, <<Word(7)>> }

\* the function is not being applied
ParseIdle ==
  /\ script = <<>>
  /\ visualScenes = <<>>
  /\ ppc = "off"
  /\ lineNo = 0
  /\ cleanDescriptions = <<>>
  /\ currentTimestamp = 0
  /\ currentText = <<>>
  /\ sceneIndex = 0
  /\ scenes = <<>>
  /\ lastIndex = 0

\* lines 64-68
ParseStart ==
  /\ ppc = "start"
  /\ ppc' = "visual"
  /\ lineNo' = 0
  /\ cleanDescriptions' = <<>>
  /\ UNCHANGED <<script, visualScenes, currentTimestamp, currentText, sceneIndex, scenes,
                 lastIndex, placeholderVars, pipelineVars, allVars, contentVars>>

\* one iteration of for (const line of visualLines), lines 70-84
VisualLine ==
  /\ ppc = "visual"
  /\ lineNo < Len(NonBlank(visualScenes))
  /\ cleanDescriptions' = Extract(cleanDescriptions, NonBlank(visualScenes)[lineNo + 1])
  /\ lineNo' = lineNo + 1
  /\ UNCHANGED <<script, visualScenes, ppc, currentTimestamp, currentText, sceneIndex,
                 scenes, lastIndex, placeholderVars, pipelineVars, allVars, contentVars>>

\* lines 86-91
ScanStart ==
  /\ ppc = "visual"
  /\ lineNo = Len(NonBlank(visualScenes))
  /\ ppc' = "script"
  /\ lineNo' = 0
  /\ scenes' = <<>>
  /\ currentTimestamp' = 0
  /\ currentText' = <<>>
  /\ sceneIndex' = 0
  /\ lastIndex' = 0
  /\ UNCHANGED <<script, visualScenes, cleanDescriptions, placeholderVars, pipelineVars, allVars, contentVars>>

\* one iteration of for (const line of scriptLines), lines 93-110
ScriptLine ==
  /\ ppc = "script"
  /\ lineNo < Len(NonBlank(script))
  /\ LET line == NonBlank(script)[lineNo + 1]
         match == exec(line, lastIndex)
     IN IF match # 0
        THEN /\ IF Length(currentText) > 0
                THEN /\ scenes' = Append(scenes, Scene(currentTimestamp, currentText,
                                                       cleanDescriptions, sceneIndex))
                     /\ sceneIndex' = sceneIndex + 1
                ELSE UNCHANGED <<scenes, sceneIndex>>
             /\ currentTimestamp' = line[match].k
             /\ currentText' = trim(RemoveMarkers(line))
             /\ lastIndex' = LastIndexAfterReplace(Offset(line, match) + line[match].n)
        ELSE /\ currentText' = currentText \o <<Space>> \o line
             /\ lastIndex' = 0
             /\ UNCHANGED <<scenes, sceneIndex, currentTimestamp>>
  /\ lineNo' = lineNo + 1
  /\ UNCHANGED <<script, visualScenes, ppc, cleanDescriptions, placeholderVars, pipelineVars, allVars, contentVars>>

\* the last scene and the return, lines 112-122
LastScene ==
  /\ ppc = "script"
  /\ lineNo = Len(NonBlank(script))
  /\ scenes' = IF Length(currentText) > 0 /\ LastSceneAllowed(sceneIndex, cleanDescriptions)
               THEN Append(scenes, Scene(currentTimestamp, currentText,
                                         cleanDescriptions, sceneIndex))
               ELSE scenes
  /\ ppc' = "done"
  /\ UNCHANGED <<script, visualScenes, lineNo, cleanDescriptions, currentTimestamp,
                 currentText, sceneIndex, lastIndex, placeholderVars, pipelineVars, allVars, contentVars>>

\* --------------------------- VideoGenerator.tsx: generatePlaceholderImages
\* a text of n characters
Text(n) == [k \in 1..n |-> "x"]

\* '...'
Ellipsis == <<".", ".", ".">>

\* scene.visualDescription.length > maxLength
\*   ? scene.visualDescription.substring(0, maxLength) + '...' : scene.visualDescription
placeholderDescription(visualDescription) ==
  IF Len(visualDescription) > maxLength
  THEN SubSeq(visualDescription, 1, maxLength) \o Ellipsis
  ELSE visualDescription

\* lengths of the descriptions given to the function: short ones and those around maxLength
DescLengths == (0..2) \cup ((maxLength - 2)..MaxDescLen)

\* the argument lists of at most n scenes
SceneLists(n) == UNION { [1..m -> {Text(len) : len \in DescLengths}] : m \in 0..n }

\* the function is not being applied
PlaceholderIdle ==
  /\ phScenes = <<>>
  /\ phIndex = 0
  /\ phTexts = <<>>

\* one callback of scenes.map: the description of scene phIndex is drawn (lines 161-194)
PlaceholderScene ==
  /\ phIndex < Len(phScenes)
  /\ phTexts' = Append(phTexts, placeholderDescription(phScenes[phIndex + 1]))
  /\ phIndex' = phIndex + 1
  /\ UNCHANGED <<phScenes, pipelineVars, parseVars, allVars, contentVars>>

\* ---------- Index page (part_002) and generate-video-content (index.ts:85-218)
\* generatedContent = null
NoContent == [kind |-> "null", statusCode |-> 0]

\* { content: generatedContent }
ContentBody == [kind |-> "content", statusCode |-> 0]

\* { error: "Rate limit exceeded. Please try again later.", statusCode: 429 }
RateLimitBody == [kind |-> "error", statusCode |-> 429]

\* { error: "Payment required. Please add credits to your workspace.", statusCode: 402 }
PaymentBody == [kind |-> "error", statusCode |-> 402]

\* { error: error.message }
ErrorBody == [kind |-> "error", statusCode |-> 0]

\* no gateway response is being read
NoGateway == [status |-> 0, json |-> FALSE, content |-> FALSE]

\* gateway responses to the chat completion: status, whether the body is JSON, whether
\* choices[0].message.content is present
ContentResponses ==
  { [status |-> 200, json |-> TRUE,  content |-> TRUE],
    [status |-> 200, json |-> TRUE,  content |-> FALSE],
    [status |-> 200, json |-> FALSE, content |-> FALSE],
    [status |-> 429, json |-> TRUE,  content |-> FALSE],
    [status |-> 402, json |-> TRUE,  content |-> FALSE],
    [status |-> 500, json |-> FALSE, content |-> FALSE] }

\* the handler has returned nothing
ContentNoResponse == [status |-> 0, body |-> NoContent]

\* the Response of the catch (index.ts:211-217)
ContentError == [status |-> 500, body |-> ErrorBody]

\* the Response the handler returns once the body of gateway response g was read
\* (index.ts:155-216)
ContentReply(g) ==
  IF g.status = 429 THEN [status |-> 200, body |-> RateLimitBody]
  ELSE IF g.status = 402 THEN [status |-> 200, body |-> PaymentBody]
  ELSE IF g.status # 200 THEN ContentError
  ELSE IF ~g.json THEN ContentError
  ELSE IF ~g.content THEN ContentError
  ELSE [status |-> 200, body |-> ContentBody]

\* "Failed to send a request to the Edge Function" (client library)
SendFailedMsg == {"Failed to send"}

\* the toast of the `if (error)` branch (part_002:172-179)
ErrorToast(message) ==
  IF "429" \in message THEN "rate"
  ELSE IF "402" \in message THEN "credits"
  ELSE "failed"

\* the page is idle and the function is not running
ContentIdle ==
  /\ hpc = "idle"
  /\ indexGenerating = FALSE
  /\ generatedContent = NoContent
  /\ pageUser = FALSE
  /\ toast = "none"
  /\ saveTimer = FALSE
  /\ hruns = 0
  /\ cpc = "off"
  /\ gateway = NoGateway
  /\ cresp = ContentNoResponse

\* VideoForm submits (disabled={isGenerating || ...}); part_002:157-170
handleGenerate ==
  /\ hpc = "idle"
  /\ ~indexGenerating
  /\ hruns < MaxRuns
  /\ hruns' = hruns + 1
  /\ indexGenerating' = TRUE
  /\ generatedContent' = NoContent
  /\ toast' = "none"
  /\ hpc' = "invoke"
  /\ \E sent \in BOOLEAN : cpc' = IF sent THEN "start" ELSE "unsent"
  /\ gateway' = NoGateway
  /\ cresp' = ContentNoResponse
  /\ UNCHANGED <<pageUser, saveTimer>>
  /\ UNCHANGED <<pipelineVars, placeholderVars, parseVars, allVars>>

\* the handler up to its fetch (index.ts:97-153)
ContentStart ==
  /\ cpc = "start"
  /\ \E keyOk \in BOOLEAN :
       IF keyOk
       THEN /\ cpc' = "fetch"
            /\ UNCHANGED cresp
       ELSE /\ cpc' = "returned"
            /\ cresp' = ContentError
  /\ UNCHANGED <<hpc, indexGenerating, generatedContent, pageUser, toast, saveTimer, hruns,
                 gateway>>
  /\ UNCHANGED <<pipelineVars, placeholderVars, parseVars, allVars>>

\* fetch returns g or throws; response.text() is awaited (index.ts:140-156, 184)
ContentFetch ==
  /\ cpc = "fetch"
  /\ \E thrown \in BOOLEAN :
       IF thrown
       THEN /\ cpc' = "returned"
            /\ cresp' = ContentError
            /\ UNCHANGED gateway
       ELSE /\ \E g \in ContentResponses : gateway' = g
            /\ cpc' = "text"
            /\ UNCHANGED cresp
  /\ UNCHANGED <<hpc, indexGenerating, generatedContent, pageUser, toast, saveTimer, hruns>>
  /\ UNCHANGED <<pipelineVars, placeholderVars, parseVars, allVars>>

\* response.text() returns; the handler returns its Response (index.ts:156-217)
ContentText ==
  /\ cpc = "text"
  /\ cpc' = "returned"
  /\ cresp' = ContentReply(gateway)
  /\ UNCHANGED <<hpc, indexGenerating, generatedContent, pageUser, toast, saveTimer, hruns,
                 gateway>>
  /\ UNCHANGED <<pipelineVars, placeholderVars, parseVars, allVars>>

\* functions.invoke returns { data, error }; the rest of handleGenerate (part_002:168-198).
\* error is set when the request could not be sent or the status is not 2xx.
HandleReturn ==
  /\ hpc = "invoke"
  /\ cpc \in {"returned", "unsent"}
  /\ cpc' = "off"
  /\ IF cpc = "unsent" \/ cresp.status \notin 200..299
     THEN /\ toast' = ErrorToast(IF cpc = "unsent" THEN SendFailedMsg ELSE TransportMsg)
          /\ UNCHANGED <<generatedContent, saveTimer>>
     ELSE /\ generatedContent' = cresp.body
          /\ toast' = "success"
          /\ saveTimer' = (saveTimer \/ (pageUser /\ cresp.body.kind = "content"))
  /\ indexGenerating' = FALSE
  /\ hpc' = "idle"
  /\ UNCHANGED <<pageUser, hruns, gateway, cresp>>
  /\ UNCHANGED <<pipelineVars, placeholderVars, parseVars, allVars>>

\* the timer of part_002:189-191 fires: saveProject runs
SaveProject ==
  /\ saveTimer
  /\ saveTimer' = FALSE
  /\ UNCHANGED <<hpc, indexGenerating, generatedContent, pageUser, toast, hruns, cpc, gateway,
                 cresp>>
  /\ UNCHANGED <<pipelineVars, placeholderVars, parseVars, allVars>>

\* the onAuthStateChange callback (part_002:148-152)
AuthStateChange ==
  /\ pageUser' = ~pageUser
  /\ UNCHANGED <<hpc, indexGenerating, generatedContent, toast, saveTimer, hruns, cpc, gateway,
                 cresp>>
  /\ UNCHANGED <<pipelineVars, placeholderVars, parseVars, allVars>>

\* ------------------------------------------------------------ the system
PipelineInit ==
  /\ sceneCount \in 0..MaxScenes
  /\ isGenerating = FALSE
  /\ progressPercent = 0
  /\ jobId = 0
  /\ closureJobId = 0
  /\ pc = "idle"
  /\ job = 0
  /\ imageData = <<>>
  /\ fallback = FALSE
  /\ outcome = "none"
  /\ wi = 0
  /\ files = <<>>
  /\ execFiles = -1
  /\ runs = 0
  /\ seenError = {}
  /\ failedAt = "none"
  /\ ffmpeg = "none"
  /\ jobs = [j \in {} |-> NewJob]
  /\ rtQueue = <<>>
  /\ dbFaults = FALSE
  /\ epc = "off"
  /\ index = 0
  /\ retries = 0
  /\ imageUrl = FALSE
  /\ images = <<>>
  /\ waitMs = 0
  /\ eresp = NoResponse
  /\ reqs = NoRequests

\* no run was started and there are no scenes
PipelineIdle ==
  /\ PipelineInit
  /\ sceneCount = 0

Init ==
  /\ PipelineInit
  /\ PlaceholderIdle
  /\ ParseIdle
  /\ AllIdle
  /\ ContentIdle

Next ==
  \/ Start
  \/ GetUser
  \/ InsertReturn
  \/ EdgeStart
  \/ EdgeInitUpdate
  \/ EdgeSceneUpdate
  \/ EdgeFetch
  \/ EdgeFinalUpdate
  \/ InvokeReturn
  \/ Update55
  \/ Load
  \/ Update65
  \/ WriteFile
  \/ Update80
  \/ Exec
  \/ ReadFile
  \/ UpdateCompleted
  \/ UpdateFailed
  \/ RealtimeCallback

Spec == Init /\ [][Next]_vars

\* The last run a component can make, with a database that may refuse writes.  Either
\* no earlier run got as far as setJobId, or the run before this one has completed.
InitDb ==
  /\ sceneCount \in 0..MaxScenes
  /\ dbFaults = TRUE
  /\ runs = MaxRuns - 1
  /\ \E earlier \in BOOLEAN :
       /\ jobId = IF earlier THEN MaxRuns - 1 ELSE 0
       /\ jobs = IF earlier
                 THEN [j \in {MaxRuns - 1} |->
                         Patch(NewJob, [status |-> "completed", progress |-> 100,
                                        completed_scenes |-> sceneCount])]
                 ELSE [j \in {} |-> NewJob]
       /\ progressPercent = IF earlier THEN 100 ELSE 0
       /\ outcome = IF earlier THEN "success" ELSE "none"
  /\ isGenerating = FALSE
  /\ closureJobId = 0
  /\ pc = "idle"
  /\ job = 0
  /\ imageData = <<>>
  /\ fallback = FALSE
  /\ wi = 0
  /\ files = <<>>
  /\ execFiles = -1
  /\ seenError = {}
  /\ failedAt = "none"
  /\ ffmpeg = "none"
  /\ rtQueue = <<>>
  /\ epc = "off"
  /\ index = 0
  /\ retries = 0
  /\ imageUrl = FALSE
  /\ images = <<>>
  /\ waitMs = 0
  /\ eresp = NoResponse
  /\ reqs = NoRequests
  /\ PlaceholderIdle
  /\ ParseIdle
  /\ AllIdle
  /\ ContentIdle

SpecDb == InitDb /\ [][Next]_vars

\* The last run a component can make, after two earlier ones: the first created the Job
\* record MaxRuns - 1 and completed, the second took that id into its closure and failed
\* before its insert (no user), so that its catch marked that record 'failed'.  The
\* realtime event of this write may or may not have been delivered yet.
InitStale ==
  /\ sceneCount \in 1..MaxScenes
  /\ dbFaults = FALSE
  /\ runs = MaxRuns - 1
  /\ jobId = MaxRuns - 1
  /\ closureJobId = MaxRuns - 1
  /\ jobs = [j \in {MaxRuns - 1} |->
               Patch(NewJob, [status |-> "failed", progress |-> 100,
                              completed_scenes |-> sceneCount, error |-> TRUE])]
  /\ rtQueue \in {<<>>, <<[job |-> MaxRuns - 1, progress |-> 100, status |-> "failed"]>>}
  /\ isGenerating = FALSE
  /\ progressPercent = 0
  /\ outcome = "failed"
  /\ failedAt = "getUser"
  /\ pc = "idle"
  /\ job = 0
  /\ imageData = <<>>
  /\ fallback = FALSE
  /\ wi = 0
  /\ files = <<>>
  /\ execFiles = -1
  /\ seenError = {}
  /\ ffmpeg = "none"
  /\ epc = "off"
  /\ index = 0
  /\ retries = 0
  /\ imageUrl = FALSE
  /\ images = <<>>
  /\ waitMs = 0
  /\ eresp = NoResponse
  /\ reqs = NoRequests
  /\ PlaceholderIdle
  /\ ParseIdle
  /\ AllIdle
  /\ ContentIdle

SpecStale == InitStale /\ [][Next]_vars

\* One invocation of generate-scene-images by the first run of a component: the state
\* InsertReturn leaves for 1..MaxScenes scenes, the client suspended in functions.invoke.
InitEdge ==
  /\ sceneCount \in 1..MaxScenes
  /\ isGenerating = TRUE
  /\ progressPercent = 10
  /\ jobId = 1
  /\ closureJobId = 0
  /\ pc = "invoke"
  /\ job = 1
  /\ imageData = <<>>
  /\ fallback = FALSE
  /\ outcome = "running"
  /\ wi = 0
  /\ files = <<>>
  /\ execFiles = -1
  /\ runs = 1
  /\ seenError = {}
  /\ failedAt = "none"
  /\ ffmpeg = "none"
  /\ jobs = [j \in {1} |-> NewJob]
  /\ rtQueue = <<>>
  /\ dbFaults = FALSE
  /\ epc = "start"
  /\ index = 0
  /\ retries = 0
  /\ imageUrl = FALSE
  /\ images = <<>>
  /\ waitMs = 0
  /\ eresp = NoResponse
  /\ reqs = NoRequests
  /\ PlaceholderIdle
  /\ ParseIdle
  /\ AllIdle
  /\ ContentIdle

NextEdge ==
  \/ EdgeStart
  \/ EdgeInitUpdate
  \/ EdgeSceneUpdate
  \/ EdgeFetch
  \/ EdgeFinalUpdate

SpecEdge == InitEdge /\ [][NextEdge]_vars

\* generatePlaceholderImages applied to a list of scenes
InitPlaceholder ==
  /\ PipelineIdle
  /\ phScenes \in SceneLists(MaxScenes)
  /\ phIndex = 0
  /\ phTexts = <<>>
  /\ ParseIdle
  /\ AllIdle
  /\ ContentIdle

NextPlaceholder ==
  \/ PlaceholderScene

SpecPlaceholder == InitPlaceholder /\ [][NextPlaceholder]_vars

\* parseScriptAndScenes applied to the props script and visualScenes
InitParse ==
  /\ PipelineIdle
  /\ PlaceholderIdle
  /\ script \in SeqsUpTo(ScriptLineSet, MaxScriptLines)
  /\ visualScenes \in SeqsUpTo(VisualLineSet, MaxVisualLines)
  /\ ppc = "start"
  /\ lineNo = 0
  /\ cleanDescriptions = <<>>
  /\ currentTimestamp = 0
  /\ currentText = <<>>
  /\ sceneIndex = 0
  /\ scenes = <<>>
  /\ lastIndex = 0
  /\ AllIdle
  /\ ContentIdle

NextParse ==
  \/ ParseStart
  \/ VisualLine
  \/ ScanStart
  \/ ScriptLine
  \/ LastScene

SpecParse == InitParse /\ [][NextParse]_vars

\* the Promise.all variant of generate-scene-images invoked with 0..MaxScenes scenes
InitAll ==
  /\ PipelineIdle
  /\ PlaceholderIdle
  /\ ParseIdle
  /\ allScenes \in 0..MaxScenes
  /\ allPc = "start"
  /\ allInFlight = {}
  /\ allBody = [i \in {} |-> NoResponse]
  /\ allSettled = [i \in {} |-> "none"]
  /\ allResp = NoResponse
  /\ ContentIdle

NextAll ==
  \/ AllStart
  \/ AllFetch
  \/ AllBody

SpecAll == InitAll /\ [][NextAll]_vars

\* the Index page as mounted, with or without a session
InitContent ==
  /\ PipelineIdle
  /\ PlaceholderIdle
  /\ ParseIdle
  /\ AllIdle
  /\ hpc = "idle"
  /\ indexGenerating = FALSE
  /\ generatedContent = NoContent
  /\ pageUser \in BOOLEAN
  /\ toast = "none"
  /\ saveTimer = FALSE
  /\ hruns = 0
  /\ cpc = "off"
  /\ gateway = NoGateway
  /\ cresp = ContentNoResponse

NextContent ==
  \/ handleGenerate
  \/ ContentStart
  \/ ContentFetch
  \/ ContentText
  \/ HandleReturn
  \/ SaveProject
  \/ AuthStateChange

SpecContent == InitContent /\ [][NextContent]_vars

TypeOK ==
  /\ sceneCount \in 0..MaxScenes
  /\ isGenerating \in BOOLEAN
  /\ progressPercent \in 0..100
  /\ jobId \in 0..MaxRuns
  /\ closureJobId \in 0..MaxRuns
  /\ job \in 0..MaxRuns
  /\ outcome \in {"none", "running", "success", "failed"}
  /\ runs \in 0..MaxRuns
  /\ DOMAIN jobs \subseteq 1..MaxRuns
  /\ \A j \in DOMAIN jobs : jobs[j].status \in {"pending", "processing", "completed", "failed"}
                            /\ jobs[j].progress \in 0..100
  /\ Len(rtQueue) <= MaxPending
  /\ retries \in -1..InitialRetries
  /\ ffmpeg \in {"none", "loaded"}
  /\ toast \in {"none", "success", "rate", "credits", "failed"}
  /\ hruns \in 0..MaxRuns


\* ----------------------------------------------------------- properties
\* a list of images has one entry per scene index 0..n-1 and nothing else
OnePerScene(imgs, n) ==
  /\ Len(imgs) = n
  /\ \A sc \in 0..(n - 1) :
       Cardinality({k \in DOMAIN imgs : imgs[k].sceneIndex = sc}) = 1

\* the four substrings that make an acquisition error a payment/quota error
QuotaTokens == {"Payment required", "payment_required", "credits", "402"}

StatusRank(st) ==
  CASE st = "pending" -> 0
    [] st = "processing" -> 1
    [] st = "completed" -> 2
    [] st = "failed" -> 2

\* C1: a success response of generate-scene-images carries exactly one image per scene
\* index 0..N-1, and so does the list made by generatePlaceholderImages.
C1_OneImagePerScene ==
  /\ (epc = "returned" /\ eresp.ok) => OnePerScene(eresp.images, sceneCount)
  /\ fallback => OnePerScene(imageData, sceneCount)

\* C2: when the gateway has answered 429 on all three attempts for a scene, the function
\* has returned an error response (no later scene is attempted, no success is returned).
C2_RateLimitExhaustedIsFatal ==
  (reqs.attempts = InitialRetries /\ reqs.n429 = InitialRetries)
     => (epc = "returned" /\ ~eresp.ok)

\* C3: a scene answered 429 and then success with image data gets no further request, its
\* image is in the result exactly once, and the function has not returned an error.
C3_RetryAfter429Succeeds ==
  (reqs.attempts = 2 /\ reqs.n429 = 1 /\ reqs.last = "ok")
     => /\ ~(epc = "fetch" /\ index = reqs.scene)
        /\ Cardinality({k \in DOMAIN images : images[k].sceneIndex = reqs.scene}) = 1
        /\ ~(epc = "returned" /\ ~eresp.ok)

C3_Witness ==
  /\ reqs.attempts = 2 /\ reqs.n429 = 1 /\ reqs.last = "ok"
  /\ sceneCount = MaxScenes /\ reqs.scene = sceneCount - 1
  /\ Cardinality({k \in DOMAIN images : images[k].sceneIndex = reqs.scene}) = 1
  /\ epc = "returned" /\ eresp.ok

\* C4: a run that created a Job record and then failed leaves that record 'failed' with
\* the error message.
C4_FailedRunMarksJobFailed ==
  (pc = "idle" /\ outcome = "failed" /\ job # 0)
     => (job \in DOMAIN jobs /\ jobs[job].status = "failed" /\ jobs[job].error)

\* C5: the status of a Job record only moves forward along
\* pending -> processing -> (completed | failed), and a terminal status never changes.
C5_StatusOnlyMovesForward ==
  [][\A j \in DOMAIN jobs \cap DOMAIN jobs' :
        /\ StatusRank(jobs'[j].status) >= StatusRank(jobs[j].status)
        /\ (jobs[j].status \in {"completed", "failed"} => jobs'[j].status = jobs[j].status)]_vars

\* C6: the progress field of a Job record never decreases.
C6_JobProgressNonDecreasing ==
  [][\A j \in DOMAIN jobs \cap DOMAIN jobs' : jobs'[j].progress >= jobs[j].progress]_vars

C6_Witness ==
  /\ pc = "idle" /\ outcome = "success" /\ sceneCount = MaxScenes
  /\ jobs[job].progress = 100
  /\ jobs[job].completed_scenes = sceneCount

\* C7: while a run of generateVideo is in progress, progressPercent never decreases.
C7_ProgressPercentNonDecreasing ==
  [][pc # "idle" => progressPercent' >= progressPercent]_vars

\* C8: a run that finished without a fatal error has progressPercent 100 and its Job record
\* has progress 100 and status 'completed'.
C8_SuccessEndsAt100 ==
  (pc = "idle" /\ outcome = "success")
     => /\ progressPercent = 100
        /\ jobs[job].progress = 100
        /\ jobs[job].status = "completed"

\* C9: exec is called only when the engine's filesystem holds one image file per scene.
C9_ExecOnlyWithAllImages ==
  (pc = "exec") => (execFiles >= sceneCount /\ OnePerScene(imageData, sceneCount))

\* C10: an acquisition error that contains a payment/quota substring is not fatal: the run
\* goes on with one placeholder image per scene, image k for scene k.
C10_QuotaFallsBackToPlaceholders ==
  (seenError \cap QuotaTokens # {})
     => /\ fallback
        /\ failedAt # "invoke"
        /\ Len(imageData) = sceneCount
        /\ \A k \in 1..sceneCount :
             imageData[k].sceneIndex = k - 1 /\ imageData[k].kind = "placeholder"

C10_Witness ==
  /\ seenError \cap QuotaTokens # {}
  /\ fallback
  /\ pc = "idle" /\ outcome = "success"
  /\ jobs[job].status = "completed"
  /\ execFiles = sceneCount

C12_FallbackIffQuotaMessage ==
  (seenError # {})
     => /\ fallback <=> (seenError \cap QuotaTokens # {})
        /\ ~fallback => (outcome = "failed" /\ failedAt = "invoke" /\ pc \in {"failUpd", "idle"})

C12_Witness ==
  /\ seenError = QuotaAndRateMsg
  /\ fallback
  /\ pc = "load"

\* the candidates as the claim C13 describes them: one per line that begins with one of
\* the two labels and whose stripped, trimmed description is longer than 20 characters
LabelledCandidates(lines) ==
  LET kept == SelectSeq(lines, LAMBDA line :
                  Labelled(line) /\ Length(trim(StripLabel(line))) > 20)
  IN [i \in 1..Len(kept) |-> trim(StripLabel(kept[i]))]

\* C13: once the loop over the visual-scenes block has ended, the candidate list holds
\* exactly the descriptions of the labelled lines with a description of more than 20
\* characters, in line order.
C13_CandidatesFromLabelledLines ==
  (ppc \in {"script", "done"}) => (cleanDescriptions = LabelledCandidates(visualScenes))

\* every line of the script starts with a marker and goes on with narration, and no two
\* lines have the same marker
MarkedScript(lines) ==
  /\ \A i \in DOMAIN lines :
       /\ IsMarker(Head(lines[i]))
       /\ Length(trim(Tail(lines[i]))) > 0
       /\ \A t \in DOMAIN Tail(lines[i]) : ~IsMarker(Tail(lines[i])[t])
  /\ \A i, j \in DOMAIN lines : i # j => Head(lines[i]).k # Head(lines[j]).k

\* C14: for a script of M lines that each start with a distinct marker followed by
\* non-empty narration, the function returns M or M-1 scenes and the k-th scene has the
\* timestamp of the k-th marker.
C14_OneScenePerMarker ==
  (ppc = "done" /\ MarkedScript(script))
     => /\ Len(scenes) \in {Len(script), Len(script) - 1}
        /\ \A k \in DOMAIN scenes : scenes[k].timestamp = Head(script[k]).k

C14_Witness ==
  /\ ppc = "done"
  /\ MarkedScript(script)
  /\ Len(script) = MaxScriptLines
  /\ Len(scenes) = MaxScriptLines - 1
  /\ scenes[1].timestamp # scenes[2].timestamp

\* C19: at the end of the input, buffered narration becomes a final scene if and only if
\* fewer scenes were emitted than candidates were extracted; otherwise it is dropped and
\* the scene list stays as it is.
C19_LastSceneIffCandidateLeft ==
  [][(ppc = "script" /\ ppc' = "done" /\ Length(currentText) > 0)
       => IF Len(scenes) < Len(cleanDescriptions)
          THEN /\ Len(scenes') = Len(scenes) + 1
               /\ SubSeq(scenes', 1, Len(scenes)) = scenes
               /\ scenes'[Len(scenes')].timestamp = currentTimestamp
               /\ scenes'[Len(scenes')].text = trim(currentText)
          ELSE scenes' = scenes]_vars

C19_Witness ==
  /\ ppc = "done"
  /\ Length(currentText) > 0
  /\ Len(scenes) >= Len(cleanDescriptions)
  /\ Len(scenes) = MaxScriptLines - 1

\* C20: every scene of the result has duration 5; the scene at index i has the i-th
\* candidate as its visualDescription when there is one and the generic text otherwise.
C20_DurationAndDescription ==
  \A i \in DOMAIN scenes :
     /\ scenes[i].duration = 5
     /\ scenes[i].visualDescription =
          IF i <= Len(cleanDescriptions) THEN cleanDescriptions[i] ELSE GenericDescription

C20_Witness ==
  /\ ppc = "done"
  /\ Len(scenes) = MaxScriptLines - 1
  /\ \A i \in DOMAIN scenes : scenes[i].visualDescription = GenericDescription
  /\ Len(visualScenes) = MaxVisualLines

\* C15: when the gateway has answered a request with success status but without image
\* data, the function has returned an error response: no further request is made for the
\* scene and no success response is returned.
C15_NoImageIsFatal ==
  (reqs.last = "noimg") => (epc = "returned" /\ ~eresp.ok)

\* C16: with an empty scene list a run never gets to the acquisition: the image function
\* is not invoked, no placeholder is made, the engine is not loaded, the run does not succeed.
C16_NoScenesFailsBeforeAcquisition ==
  (sceneCount = 0)
     => /\ epc = "off"
        /\ ~fallback
        /\ imageData = <<>>
        /\ pc \in {"idle", "getUser", "insert", "failUpd"}
        /\ execFiles = -1
        /\ outcome # "success"

C16_Witness ==
  /\ sceneCount = 0
  /\ job # 0
  /\ outcome = "failed"
  /\ failedAt = "insert"
  /\ pc = "idle"

\* C17: whether or not the write is applied, the step that follows an awaited update of a
\* Job record goes where it goes after a successful update: the edge function to its next
\* update, fetch or success response, the client to the engine steps and to the end of
\* the run; the run is not failed by it.
C17_UpdateFailureNeverAborts ==
  [][/\ (epc = "initUpd" /\ epc' # epc) => epc' = "sceneUpd"
     /\ (epc = "sceneUpd" /\ epc' # epc) => epc' = "fetch"
     /\ (epc = "finalUpd" /\ epc' # epc) => (epc' = "returned" /\ eresp' = SuccessResponse(images))
     /\ (pc = "upd55" /\ pc' # pc) => (pc' = "load" /\ outcome' = "running")
     /\ (pc = "upd65" /\ pc' # pc) => (pc' \in {"write", "upd80"} /\ outcome' = "running")
     /\ (pc = "upd80" /\ pc' # pc) => (pc' = "exec" /\ outcome' = "running")
     /\ (pc = "updDone" /\ pc' # pc) => (pc' = "idle" /\ outcome' = "success")
     /\ (pc = "failUpd" /\ pc' # pc) => (pc' = "idle" /\ progressPercent' = 0 /\ ~isGenerating')]_vars

C17_Witness ==
  /\ dbFaults
  /\ pc = "idle" /\ outcome = "success"
  /\ sceneCount = MaxScenes
  /\ execFiles = sceneCount
  /\ jobs[job].status = "pending"
  /\ jobs[job].progress = 0

\* the gateway requests that were issued and have not returned, of either variant
InFlight ==
  { [f |-> "part_000", scene |-> index] : x \in IF epc = "fetch" THEN {0} ELSE {} }
    \cup { [f |-> "index.ts", scene |-> i] : i \in allInFlight }

\* C18: at most one gateway request is in flight at any time, and a request for a scene
\* is in flight only when the acquisition of every earlier scene has finished.
C18_OneRequestInFlight ==
  /\ Cardinality(InFlight) <= 1
  /\ \A i \in allInFlight : \A j \in 0..(i - 1) : j \in DOMAIN allSettled

\* the kinds of answer that are a failure other than a rate limit
OtherFailures == {"402", "500", "noimg"}

\* the error texts the function's error response can carry for a last answer of kind k
LastFailureErrors(k) ==
  { EdgeClientMessage(IF Kind(r) = "noimg" THEN NoImageMsg ELSE GatewayErrorMsg(r.text)) :
      r \in {x \in Responses : Kind(x) = k} }

\* C21: at most 3 requests are sent for one scene, and when all three were answered by a
\* failure other than a rate limit the function has returned an error response that
\* carries the last of these failures.
C21_ThreeFailuresAreFatal ==
  /\ reqs.attempts <= InitialRetries
  /\ (reqs.attempts = InitialRetries /\ reqs.n429 = 0 /\ reqs.last \in OtherFailures)
        => /\ epc = "returned"
           /\ ~eresp.ok
           /\ eresp.error \in LastFailureErrors(reqs.last)

C21_Witness ==
  /\ sceneCount = MaxScenes
  /\ reqs.scene = sceneCount - 1
  /\ reqs.attempts = InitialRetries /\ reqs.n429 = 0 /\ reqs.last = "noimg"
  /\ epc = "returned"
  /\ eresp.error = NoImageMsg
  /\ eresp.status = 500

\* C22: the waits after successive 429 answers for one scene are strictly increasing, and
\* the wait after a failure other than a rate limit is shorter than the wait after a 429
\* answer that leaves the same number of attempts.
C22_OtherFailuresWaitLess ==
  [][/\ (/\ reqs.last = "429" /\ reqs'.last = "429"
          /\ reqs'.scene = reqs.scene /\ reqs'.attempts = reqs.attempts + 1
          /\ waitMs' > 0)
        => waitMs' > waitMs
     /\ (reqs' # reqs /\ reqs'.last \in OtherFailures /\ waitMs' > 0)
        => waitMs' < (4 - retries') * BackoffStepMs]_vars

\* C23: the update that reports scene i is written only after the image of scene i was
\* obtained: the completed_scenes of the Job record never exceeds the number of images
\* acquired so far.
C23_CompletedScenesAtMostImages ==
  (epc \notin {"off", "start"} /\ job \in DOMAIN jobs)
     => jobs[job].completed_scenes <= Len(images)

\* the progress band of the phase generateVideo is in at position p
PhaseBand(p) ==
  CASE p = "insert" -> 0..10
    [] p = "invoke" -> 10..55
    [] p = "upd55" -> 55..65
    [] p = "upd65" -> 65..80
    [] p \in {"upd80", "updDone"} -> 80..100
    [] OTHER -> 0..100

\* C24: every progress value written to the Job record of the run lies inside the band of
\* the phase the run is in: 0-10 setup and parsing, 10-55 image acquisition, 55-65 engine
\* load, 65-80 writing the images, 80-100 encoding and finalization.
C24_ProgressInsidePhaseBand ==
  [][(/\ job' \in DOMAIN jobs'
      /\ (job' \notin DOMAIN jobs \/ jobs'[job'] # jobs[job'])
      /\ pc # "failUpd")
        => jobs'[job'].progress \in PhaseBand(pc)]_vars

\* C25: every file written into the engine's filesystem is named after the sceneIndex of
\* the image it holds: image<k>.png holds the image whose sceneIndex is k.
C25_FileNameIsSceneIndex ==
  \A k \in DOMAIN files : files[k] = k - 1

\* C26: a run that loaded an engine instance has released it when the run ends, on the
\* success path and on every failure path after the load.
C26_EngineReleasedAtEnd ==
  (pc = "idle" /\ outcome \in {"success", "failed"}) => ffmpeg # "loaded"

C28_GeneratingWhileRunning ==
  /\ (pc # "idle") => isGenerating
  /\ (pc = "idle" /\ outcome \in {"success", "failed"}) => ~isGenerating

\* the line holds a timestamp marker
HasMarker(line) == \E t \in DOMAIN line : IsMarker(line[t])

\* the line holds a marker and no narration
MarkerAlone(line) ==
  HasMarker(line) /\ \A t \in DOMAIN line : IsMarker(line[t]) \/ IsSpace(line[t])

\* the first n lines, each preceded by a space, as the loop buffers them
RECURSIVE Buffered(_, _)
Buffered(lines, n) ==
  IF n = 0 THEN <<>> ELSE Buffered(lines, n - 1) \o <<Space>> \o lines[n]

\* C29: every scene of the result has non-empty narration text; a marker line without
\* narration that is directly followed by another marker line produces no scene; the text
\* that precedes the first marker becomes a scene with timestamp '00:00'.
C29_ScenesHaveNarration ==
  [][LET lines == NonBlank(script)
     IN /\ \A i \in DOMAIN scenes' : Length(scenes'[i].text) > 0
        /\ (/\ ppc = "script" /\ lineNo' = lineNo + 1 /\ lineNo >= 1
            /\ MarkerAlone(lines[lineNo])
            /\ HasMarker(lines[lineNo + 1]))
              => scenes' = scenes
        /\ (/\ ppc = "script" /\ lineNo' = lineNo + 1 /\ lineNo >= 1
            /\ HasMarker(lines[lineNo + 1])
            /\ \A i \in 1..lineNo : ~HasMarker(lines[i]))
              => /\ Len(scenes') = 1
                 /\ scenes'[1].timestamp = 0
                 /\ scenes'[1].text = trim(Buffered(lines, lineNo))]_vars

C29_Witness ==
  /\ ppc = "done"
  /\ Len(script) = MaxScriptLines
  /\ ~HasMarker(script[1])
  /\ MarkerAlone(script[2])
  /\ HasMarker(script[3])
  /\ Len(scenes) = 1
  /\ scenes[1].timestamp = 0
  /\ scenes[1].text = script[1]

\* C30: handleGenerate stores a result and shows the success toast only when the function
\* produced content; when the function reports a gateway rate limit (429) or payment
\* failure (402) the page shows the matching error and stores nothing.
C30_ContentStoredOnlyOnSuccess ==
  /\ (toast = "success" \/ generatedContent # NoContent) => generatedContent = ContentBody
  /\ (hpc = "idle" /\ cresp.body = RateLimitBody)
        => (toast = "rate" /\ generatedContent = NoContent)
  /\ (hpc = "idle" /\ cresp.body = PaymentBody)
        => (toast = "credits" /\ generatedContent = NoContent)

====
